---- MODULE Spec2Model ----
(***************************************************************************)
(* Model of fiscai.utils.file.file_recovery_on_error (a context manager    *)
(* that snapshots a list of files and restores them when the guarded       *)
(* block raises), of the workflows that use it (extract_pdf_pages and      *)
(* init_for_doc), and of fiscai.entry.base.command_wrap.                   *)
(*                                                                         *)
(* The filesystem is a partial function from paths to files (content and   *)
(* modification time); a path that is not in its domain does not exist.    *)
(* Every iteration of the capture loop and of the restore loop is one      *)
(* step.                                                                   *)
(***************************************************************************)
EXTENDS Integers, Sequences, FiniteSets, TLC

\* ------------------------------------------------------------------ bounds

\* File contents are 0..NumContents; 0 is the empty byte string.
NumContents == 2
\* Longest `files` list a caller passes.
MaxFiles == 2
\* Deepest nesting of guarded blocks.
MaxDepth == 2
\* Guard invocations one caller makes.
MaxGuards == 2
\* Pages of the document extract_pdf_pages works on.
NumPages == 2
\* Runs of extract_pdf_pages over one document directory.
MaxRuns == 3
\* Ticks of the filesystem clock (modification times are 0..MaxTime).
MaxTime == 1
\* Frames in the traceback of an exception that reaches command_wrap.
MaxFrames == 2

\* ------------------------------------------------------------------ values

Contents == 0..NumContents
EmptyBytes == 0

\* Two caller paths that share a file name and differ in directory.
FileA == [dir |-> "d1", name |-> "a.txt"]
FileB == [dir |-> "d2", name |-> "a.txt"]
UserPaths == {FileA, FileB}

\* The `files` arguments a caller passes (duplicates included).
FileLists == UNION {[1..n -> UserPaths] : n \in 0..MaxFiles}

\* Exceptions: ValueError derives from Exception, KeyboardInterrupt only
\* from BaseException; OSError is what a failing shutil.copy2 raises.
BlockExceptions == {"ValueError", "KeyboardInterrupt"}
NoException == "None"
NoneFile == "None"

\* What an extraction call returns; written out, it is a non-empty file.
Data == 1..NumContents
NoneRef == -1

\* os.path.join(doc_dir, f'page-{page_num}-params.json') and ...-table.csv
ParamsFile(page_num) == [dir |-> "doc", name |-> "page-" \o ToString(page_num) \o "-params.json"]
TableFile(page_num) == [dir |-> "doc", name |-> "page-" \o ToString(page_num) \o "-table.csv"]
Artifact(kind, page_num) == IF kind = "params" THEN ParamsFile(page_num) ELSE TableFile(page_num)
Artifacts == {Artifact(kind, n) : kind \in {"params", "table"}, n \in 1..NumPages}

\* fs and tmpfs[dir] map a path to a file [data, mtime]; clock is the time a
\* write stamps on the file it writes.
VARIABLES fs, tmpfs, guards, last, entered, wf, clock

vars == <<fs, tmpfs, guards, last, entered, wf, clock>>

\* ------------------------------------------------------------------ filesystem

\* Path.exists()
Exists(f, p) == p \in DOMAIN f

\* Writing a whole file: creates it or replaces its content.
WriteFile(f, p, c) == (p :> c) @@ f

\* What open(path, 'w') and a write leave: content c, modified now.
NewFile(c) == [data |-> c, mtime |-> clock]

\* shutil.copy2: the content and the metadata of the source.
CopyNoMetadata(src) == [data |-> src.data, mtime |-> clock]
Copy2(src) == [data |-> src.data, mtime |-> src.mtime]

\* Path.unlink()
Unlink(f, p) == [q \in DOMAIN f \ {p} |-> f[q]]

\* temp_path / f"backup_{i}_{file_path.name}"
BackupNameByNameOnly(i, file_path) == "backup_" \o file_path.name
BackupName(i, file_path) == "backup_" \o ToString(i) \o "_" \o file_path.name

\* backup_info[file_path] = (status, backup_file) on an insertion-ordered dict:
\* a key already present keeps its position and gets the new value.
DictSetAppend(d, file_path, status, backup_file) ==
    Append(d, [file_path |-> file_path, status |-> status, backup_file |-> backup_file])
DictSet(d, file_path, status, backup_file) ==
    LET item == [file_path |-> file_path, status |-> status, backup_file |-> backup_file]
        at == {j \in 1..Len(d) : d[j].file_path = file_path}
    IN IF at = {} THEN Append(d, item)
       ELSE [j \in 1..Len(d) |-> IF j \in at THEN item ELSE d[j]]

\* TemporaryDirectory(): a directory whose name no existing one has.
SharedTempDir == CHOOSE n \in {1} : TRUE
FreshTempDir == CHOOSE n \in 1..(Cardinality(DOMAIN tmpfs) + 1) : n \notin DOMAIN tmpfs

\* Leaving `with TemporaryDirectory()`: the directory and its files are removed.
KeepTempDir(t, dir) == t
CleanupEveryTempDir(t, dir) == [d \in DOMAIN t \ {dir} |-> <<>>]
CleanupTempDir(t, dir) == [d \in DOMAIN t \ {dir} |-> t[d]]

\* ------------------------------------------------------------------ guard frames

Depth == Len(guards)
Top == guards[Depth]

\* `last` is the invocation that has just exited, as its caller sees it,
\* until the caller's next step.
NoLast == [pc |-> "none"]
NoInner == [rolled_back |-> FALSE, committed |-> FALSE]

\* The scope whose block raised right before this one was entered, as far
\* as the two protect the same paths: the paths of both that existed when
\* that scope was entered and that its block mutated, with what they were
\* when that scope was entered.
Before(fl) ==
    LET paths == IF Depth = 0 /\ last.pc # "none" /\ last.exc # NoException
                 THEN {p \in DOMAIN last.entry :
                          /\ \E j \in 1..Len(last.files) : last.files[j] = p
                          /\ \E j \in 1..Len(fl) : fl[j] = p
                          /\ (p \in DOMAIN last.left => last.left[p] # last.entry[p])}
                 ELSE {}
    IN  [p \in paths |-> last.entry[p]]

\* Bookkeeping that is not program state: entry and left are the filesystem
\* when the scope was entered and when the block ended, yielded tells
\* whether the block was started, restores counts the starts of the restore
\* loop, depth is the nesting depth, and inner is the nested scope that
\* rolled back or committed inside this block, kept while the block leaves that scope's
\* paths alone; before is described at Before; restore_error is the error
\* a restore step raised; skipped holds the paths whose backup was missing
\* when the restore loop reached them.
NewFrame(fl, blk, dir) ==
    [files |-> fl, block |-> blk, pc |-> "capture", i |-> 0, temp_dir |-> dir,
     backup_info |-> <<>>, k |-> 1, exc |-> NoException, outcome |-> "pending",
     entry |-> fs, left |-> fs, yielded |-> FALSE, restores |-> 0,
     depth |-> Depth + 1, inner |-> NoInner, before |-> Before(fl),
     restore_error |-> NoException, skipped |-> {}]

SetTop(fr) == [guards EXCEPT ![Depth] = fr]

Protected(fr) == {fr.files[j] : j \in 1..Len(fr.files)}

\* The generator is left (normally or by an exception): the temporary
\* directory is cleaned up and the caller observes `outcome`.
ExitScope(fr, pc, outcome) ==
    /\ guards' = IF Depth > 1
                 THEN [SubSeq(guards, 1, Depth - 1) EXCEPT ![Depth - 1].inner =
                          IF pc \in {"rolledback", "committed"}
                          THEN [rolled_back |-> pc = "rolledback", committed |-> pc = "committed",
                                files |-> fr.files, entry |-> fr.entry]
                          ELSE NoInner]
                 ELSE <<>>
    /\ tmpfs' = CleanupTempDir(tmpfs, fr.temp_dir)
    /\ last' = [fr EXCEPT !.pc = pc, !.outcome = outcome]

\* ------------------------------------------------------------------ scope entry

\* files = [Path(f) for f in files]; with TemporaryDirectory() as temp_dir
EnterScope(fl, blk) ==
    /\ Depth < MaxDepth
    /\ Depth > 0 => Top.pc = "active"
    /\ guards' = Append(guards, NewFrame(fl, blk, FreshTempDir))
    /\ tmpfs' = (FreshTempDir :> <<>>) @@ tmpfs
    /\ last' = NoLast
    /\ UNCHANGED fs

\* One iteration of `for i, file_path in enumerate(files)`.
CaptureStepMove ==
    /\ Depth > 0
    /\ Top.pc = "capture"
    /\ Top.i < Len(Top.files)
    /\ LET file_path == Top.files[Top.i + 1]
           backup_file == BackupName(Top.i, file_path)
       IN IF Exists(fs, file_path)
          THEN /\ tmpfs' = [tmpfs EXCEPT ![Top.temp_dir] = WriteFile(@, backup_file, Copy2(fs[file_path]))]
               /\ fs' = Unlink(fs, file_path)
               /\ guards' = SetTop([Top EXCEPT
                      !.backup_info = DictSet(@, file_path, "exists", backup_file),
                      !.i = @ + 1])
          ELSE /\ tmpfs' = tmpfs
               /\ fs' = fs
               /\ guards' = SetTop([Top EXCEPT
                      !.backup_info = DictSet(@, file_path, "not_exists", NoneFile),
                      !.i = @ + 1])
    /\ last' = NoLast
    /\ UNCHANGED <<entered, wf, clock>>

CaptureStep ==
    /\ Depth > 0
    /\ Top.pc = "capture"
    /\ Top.i < Len(Top.files)
    /\ LET file_path == Top.files[Top.i + 1]
           backup_file == BackupName(Top.i, file_path)
       IN IF Exists(fs, file_path)
          THEN /\ tmpfs' = [tmpfs EXCEPT ![Top.temp_dir] = WriteFile(@, backup_file, Copy2(fs[file_path]))]
               /\ guards' = SetTop([Top EXCEPT
                      !.backup_info = DictSet(@, file_path, "exists", backup_file),
                      !.i = @ + 1])
          ELSE /\ tmpfs' = tmpfs
               /\ guards' = SetTop([Top EXCEPT
                      !.backup_info = DictSet(@, file_path, "not_exists", NoneFile),
                      !.i = @ + 1])
    /\ last' = NoLast
    /\ UNCHANGED <<fs, entered, wf, clock>>

CaptureFailSuppressed ==
    /\ Depth > 0
    /\ Top.pc = "capture"
    /\ Top.i < Len(Top.files)
    /\ Exists(fs, Top.files[Top.i + 1])
    /\ guards' = SetTop([Top EXCEPT !.i = @ + 1])
    /\ last' = NoLast
    /\ UNCHANGED <<fs, tmpfs, entered, wf, clock>>

\* shutil.copy2(file_path, backup_file) raises: the error leaves the
\* generator before its yield.
CaptureFail ==
    /\ Depth > 0
    /\ Top.pc = "capture"
    /\ Top.i < Len(Top.files)
    /\ Exists(fs, Top.files[Top.i + 1])
    /\ ExitScope(Top, "aborted", "OSError")
    /\ UNCHANGED <<fs, entered, wf, clock>>

\* The capture loop is over: `yield` hands control to the block.
Yield ==
    /\ Depth > 0
    /\ Top.pc = "capture"
    /\ Top.i = Len(Top.files)
    /\ guards' = SetTop([Top EXCEPT !.pc = "active", !.yielded = TRUE])
    /\ last' = NoLast
    /\ UNCHANGED <<fs, tmpfs, entered, wf, clock>>

\* ------------------------------------------------------------------ scope exit

\* A bare `except:` catches every exception.
CatchesExceptionOnly(e) == e # "KeyboardInterrupt"
Catches(e) == TRUE

\* The trailing `raise` re-raises the exception being handled.
ReraiseSwallowed(e) == "return"
ReraiseWrapped(e) == "RuntimeError"
Reraise(e) == e

GenNextRestoring ==
    /\ Depth > 0
    /\ Top.pc = "active"
    /\ ExitScope([Top EXCEPT !.left = fs], "committed", "return")
    /\ fs' = [p \in (DOMAIN fs \ Protected(Top)) \cup (DOMAIN Top.entry \cap Protected(Top)) |->
                 IF p \in Protected(Top) THEN Top.entry[p] ELSE fs[p]]

GenNextFinally ==
    /\ Depth > 0
    /\ Top.pc = "active"
    /\ guards' = SetTop([Top EXCEPT !.pc = "restore", !.k = 1, !.left = fs, !.restores = @ + 1])
    /\ last' = NoLast
    /\ UNCHANGED <<fs, tmpfs>>

\* The block ends without raising: the generator resumes after `yield`,
\* leaves the try statement and the TemporaryDirectory.
GenNext ==
    /\ Depth > 0
    /\ Top.pc = "active"
    /\ ExitScope([Top EXCEPT !.left = fs], "committed", "return")
    /\ UNCHANGED fs

GenThrowResnapshot(e) ==
    /\ Depth > 0
    /\ Top.pc = "active"
    /\ guards' = SetTop([Top EXCEPT !.pc = "restore", !.exc = e, !.k = 1,
                                    !.left = fs, !.restores = @ + 1])
    /\ last' = NoLast
    /\ tmpfs' = [tmpfs EXCEPT ![Top.temp_dir] =
                    [b \in DOMAIN @ |->
                        LET at == {j \in 1..Len(Top.backup_info) :
                                      /\ Top.backup_info[j].backup_file = b
                                      /\ Exists(fs, Top.backup_info[j].file_path)}
                        IN  IF at = {} THEN @[b]
                            ELSE Copy2(fs[Top.backup_info[CHOOSE j \in at : TRUE].file_path])]]
    /\ UNCHANGED fs

\* The block raises e: it is thrown into the generator at `yield`.
GenThrow(e) ==
    /\ Depth > 0
    /\ Top.pc = "active"
    /\ IF Catches(e)
       THEN /\ guards' = SetTop([Top EXCEPT !.pc = "restore", !.exc = e, !.k = 1,
                                            !.left = fs, !.restores = @ + 1])
            /\ last' = NoLast
            /\ UNCHANGED tmpfs
       ELSE ExitScope([Top EXCEPT !.exc = e, !.left = fs], "unwound", e)
    /\ UNCHANGED fs

RestoreItemNoRecreate(f, t, item) ==
    IF item.status = "exists"
    THEN IF item.backup_file # NoneFile /\ Exists(t, item.backup_file) /\ Exists(f, item.file_path)
         THEN WriteFile(f, item.file_path, Copy2(t[item.backup_file]))
         ELSE f
    ELSE IF Exists(f, item.file_path)
         THEN Unlink(f, item.file_path)
         ELSE f

RestoreItemNoUnlink(f, t, item) ==
    IF item.status = "exists"
    THEN IF item.backup_file # NoneFile /\ Exists(t, item.backup_file)
         THEN WriteFile(f, item.file_path, Copy2(t[item.backup_file]))
         ELSE f
    ELSE f

RestoreItemRemoveDir(f, t, item) ==
    IF item.status = "exists"
    THEN IF item.backup_file # NoneFile /\ Exists(t, item.backup_file)
         THEN WriteFile(f, item.file_path, Copy2(t[item.backup_file]))
         ELSE f
    ELSE IF Exists(f, item.file_path)
         THEN Unlink(Unlink(f, item.file_path), [dir |-> item.file_path.dir, name |-> ""])
         ELSE f

\* One iteration of `for file_path, (status, backup_file) in backup_info.items()`.
RestoreItem(f, t, item) ==
    IF item.status = "exists"
    THEN IF item.backup_file # NoneFile /\ Exists(t, item.backup_file)
         THEN WriteFile(f, item.file_path, Copy2(t[item.backup_file]))
         ELSE f
    ELSE IF Exists(f, item.file_path)
         THEN Unlink(f, item.file_path)
         ELSE f

\* `if backup_file and backup_file.exists()` is false for an "exists" record.
BackupMissing(t, item) ==
    item.status = "exists" /\ ~(item.backup_file # NoneFile /\ Exists(t, item.backup_file))

RestoreStepReversed ==
    /\ Depth > 0
    /\ Top.pc = "restore"
    /\ Top.k <= Len(Top.backup_info)
    /\ fs' = RestoreItem(fs, tmpfs[Top.temp_dir],
                         Top.backup_info[Len(Top.backup_info) + 1 - Top.k])
    /\ guards' = SetTop([Top EXCEPT !.k = @ + 1])
    /\ last' = NoLast
    /\ UNCHANGED <<tmpfs, entered, wf, clock>>

RestoreStepUnchecked ==
    /\ Depth > 0
    /\ Top.pc = "restore"
    /\ Top.k <= Len(Top.backup_info)
    /\ IF BackupMissing(tmpfs[Top.temp_dir], Top.backup_info[Top.k])
       THEN /\ ExitScope([Top EXCEPT !.restore_error = "FileNotFoundError"],
                         "restore_failed", "FileNotFoundError")
            /\ UNCHANGED fs
       ELSE /\ fs' = RestoreItem(fs, tmpfs[Top.temp_dir], Top.backup_info[Top.k])
            /\ guards' = SetTop([Top EXCEPT !.k = @ + 1])
            /\ last' = NoLast
            /\ UNCHANGED tmpfs
    /\ UNCHANGED <<entered, wf, clock>>

RestoreStep ==
    /\ Depth > 0
    /\ Top.pc = "restore"
    /\ Top.k <= Len(Top.backup_info)
    /\ fs' = RestoreItem(fs, tmpfs[Top.temp_dir], Top.backup_info[Top.k])
    /\ guards' = SetTop([Top EXCEPT
           !.k = @ + 1,
           !.skipped = IF BackupMissing(tmpfs[Top.temp_dir], Top.backup_info[Top.k])
                       THEN @ \cup {Top.backup_info[Top.k].file_path} ELSE @])
    /\ last' = NoLast
    /\ UNCHANGED <<tmpfs, entered, wf, clock>>

\* The restore loop performs an operation on the filesystem for this record:
\* shutil.copy2(backup_file, file_path) or file_path.unlink().
RestoreAttempts(f, t, item) ==
    IF item.status = "exists" THEN ~BackupMissing(t, item) ELSE Exists(f, item.file_path)

RestoreFailCaught ==
    /\ Depth > 0
    /\ Top.pc = "restore"
    /\ Top.k <= Len(Top.backup_info)
    /\ RestoreAttempts(fs, tmpfs[Top.temp_dir], Top.backup_info[Top.k])
    /\ guards' = SetTop([Top EXCEPT !.k = @ + 1, !.restore_error = "OSError"])
    /\ last' = NoLast
    /\ UNCHANGED <<fs, tmpfs, entered, wf, clock>>

\* shutil.copy2(backup_file, file_path) or file_path.unlink() raises: nothing
\* in the handler catches it, so it leaves the generator. A failed copy has
\* left the target as it was or truncated.
RestoreFail ==
    /\ Depth > 0
    /\ Top.pc = "restore"
    /\ Top.k <= Len(Top.backup_info)
    /\ RestoreAttempts(fs, tmpfs[Top.temp_dir], Top.backup_info[Top.k])
    /\ ExitScope([Top EXCEPT !.restore_error = "OSError"], "restore_failed", "OSError")
    /\ \/ fs' = fs
       \/ /\ Top.backup_info[Top.k].status = "exists"
          /\ fs' = WriteFile(fs, Top.backup_info[Top.k].file_path, NewFile(EmptyBytes))
    /\ UNCHANGED <<entered, wf, clock>>

ReraiseStepEarly ==
    /\ Depth > 0
    /\ Top.pc = "restore"
    /\ Top.k > 1
    /\ ExitScope(Top, "rolledback", Reraise(Top.exc))
    /\ UNCHANGED <<fs, entered, wf, clock>>

\* The restore loop is over: `raise`.
ReraiseStep ==
    /\ Depth > 0
    /\ Top.pc = "restore"
    /\ Top.k > Len(Top.backup_info)
    /\ ExitScope(Top, "rolledback", Reraise(Top.exc))
    /\ UNCHANGED <<fs, entered, wf, clock>>

\* ------------------------------------------------------------------ an arbitrary caller

InCallerBlock == Depth > 0 /\ Top.pc = "active" /\ Top.block = "caller"

\* with file_recovery_on_error(files):
CallerEnter ==
    /\ entered < MaxGuards
    /\ Depth = 0
    /\ \E fl \in FileLists : EnterScope(fl, "caller")
    /\ entered' = entered + 1
    /\ UNCHANGED <<wf, clock>>

\* with file_recovery_on_error(files): inside the block of another scope.
CallerNest ==
    /\ entered < MaxGuards
    /\ InCallerBlock
    /\ \E fl \in FileLists : EnterScope(fl, "caller")
    /\ entered' = entered + 1
    /\ UNCHANGED <<wf, clock>>

\* The block touches path p.
Touch(fr, p) ==
    IF (fr.inner.rolled_back \/ fr.inner.committed) /\ p \in Protected(fr.inner)
    THEN [fr EXCEPT !.inner = NoInner] ELSE fr

\* The block rewrites or truncates a file, or creates it.
BlockWrite ==
    /\ InCallerBlock
    /\ \E p \in UserPaths, c \in Contents :
          /\ fs' = WriteFile(fs, p, NewFile(c))
          /\ guards' = SetTop(Touch(Top, p))
    /\ last' = NoLast
    /\ UNCHANGED <<tmpfs, entered, wf, clock>>

\* The block deletes a file.
BlockDelete ==
    /\ InCallerBlock
    /\ \E p \in DOMAIN fs \cap UserPaths :
          /\ fs' = Unlink(fs, p)
          /\ guards' = SetTop(Touch(Top, p))
    /\ last' = NoLast
    /\ UNCHANGED <<tmpfs, entered, wf, clock>>

\* The block ends normally (falls off its end, or returns early).
BlockReturn ==
    /\ InCallerBlock
    /\ GenNext
    /\ UNCHANGED <<entered, wf, clock>>

\* The block raises (its own error, or one it lets through from a nested scope).
BlockRaise ==
    /\ InCallerBlock
    /\ \E e \in BlockExceptions : GenThrow(e)
    /\ UNCHANGED <<entered, wf, clock>>

\* ------------------------------------------------------------------ extract_pdf_pages

\* json.load of a params file: an empty (incomplete) file does not parse.
JsonLoads(c) == c # EmptyBytes

\* The first loop: ref_params and ref_table come from the first page that
\* has the file; json.load raises on a file that does not parse.
FirstPage(kind) ==
    LET have == {n \in 1..NumPages : Exists(fs, Artifact(kind, n))}
    IN IF have = {} THEN 0 ELSE CHOOSE n \in have : \A m \in have : n <= m

ScanRef(kind) ==
    IF FirstPage(kind) = 0 THEN NoneRef ELSE fs[Artifact(kind, FirstPage(kind))].data

ScanRaises ==
    FirstPage("params") # 0 /\ ~JsonLoads(fs[ParamsFile(FirstPage("params"))].data)

\* The run is over: the caller of extract_pdf_pages sees `result`.
\* failed_at is bookkeeping: the artifact a failed run stopped at, and
\* whether its file was on disk when the block raised; retry is the
\* failed_at of the run before this one, calls the extraction calls of this
\* run, start the filesystem when this run began, and found the artifacts
\* that were on disk when the main loop reached them, with their content.
Ended(result, exc) ==
    [wf EXCEPT !.pc = "idle", !.result = result, !.exc = exc,
               !.failed_at = IF result = "failed"
                         THEN {[file |-> Artifact(wf.kind, wf.page_num),
                                written |-> Exists(last.left, Artifact(wf.kind, wf.page_num))]}
                         ELSE {}]

EndRun(result, exc) == wf' = Ended(result, exc)

\* extract_pdf_pages(doc_dir) is called: the scan loop, then page 1.
ExtractStart ==
    /\ wf.pc = "idle"
    /\ wf.run < MaxRuns
    /\ IF ScanRaises
       THEN wf' = [wf EXCEPT !.run = @ + 1, !.result = "failed", !.exc = "JSONDecodeError",
                             !.calls = <<>>, !.retry = {}, !.failed_at = {},
                             !.start = fs, !.found = <<>>]
       ELSE wf' = [wf EXCEPT !.pc = "check", !.run = @ + 1, !.result = "running",
                             !.exc = NoException, !.page_num = 1, !.kind = "params",
                             !.ref_params = ScanRef("params"), !.ref_table = ScanRef("table"),
                             !.calls = <<>>, !.retry = wf.failed_at, !.failed_at = {},
                             !.start = fs, !.found = <<>>]
    /\ last' = NoLast
    /\ UNCHANGED <<fs, tmpfs, guards, entered, clock>>

\* The next artifact in page order: the table of this page, then the params
\* of the next page; after the last page the function returns.
AdvancedSkipTable ==
    IF wf.page_num < NumPages
    THEN [wf EXCEPT !.pc = "check", !.kind = "params", !.page_num = @ + 1]
    ELSE Ended("returned", NoException)

Advanced ==
    IF wf.kind = "params"
    THEN [wf EXCEPT !.pc = "check", !.kind = "table"]
    ELSE IF wf.page_num < NumPages
         THEN [wf EXCEPT !.pc = "check", !.kind = "params", !.page_num = @ + 1]
         ELSE Ended("returned", NoException)

Advance == wf' = Advanced

\* The file is on disk when the loop reaches it: it is passed over.
Found(w) ==
    [w EXCEPT !.found = (Artifact(wf.kind, wf.page_num) :> fs[Artifact(wf.kind, wf.page_num)]) @@ @]

ArtifactCheckUnguarded ==
    /\ wf.pc = "check"
    /\ IF ~Exists(fs, Artifact(wf.kind, wf.page_num))
       THEN /\ EnterScope(<<>>, wf.kind)
            /\ wf' = [wf EXCEPT !.pc = "block", !.step = "extract"]
       ELSE /\ wf' = Found(Advanced)
            /\ last' = NoLast
            /\ UNCHANGED <<fs, tmpfs, guards>>
    /\ UNCHANGED <<entered, clock>>

ArtifactCheckWrongFile ==
    /\ wf.pc = "check"
    /\ IF ~Exists(fs, Artifact(wf.kind, wf.page_num))
       THEN /\ EnterScope(<<Artifact(IF wf.kind = "params" THEN "table" ELSE "params",
                                     wf.page_num)>>, wf.kind)
            /\ wf' = [wf EXCEPT !.pc = "block", !.step = "extract"]
       ELSE /\ wf' = Found(Advanced)
            /\ last' = NoLast
            /\ UNCHANGED <<fs, tmpfs, guards>>
    /\ UNCHANGED <<entered, clock>>

ArtifactCheckAlways ==
    /\ wf.pc = "check"
    /\ EnterScope(<<Artifact(wf.kind, wf.page_num)>>, wf.kind)
    /\ wf' = IF Exists(fs, Artifact(wf.kind, wf.page_num))
             THEN [Found(wf) EXCEPT !.pc = "block", !.step = "extract"]
             ELSE [wf EXCEPT !.pc = "block", !.step = "extract"]
    /\ UNCHANGED <<entered, clock>>

\* if not os.path.exists(dst_file): with file_recovery_on_error([dst_file]):
ArtifactCheck ==
    /\ wf.pc = "check"
    /\ IF ~Exists(fs, Artifact(wf.kind, wf.page_num))
       THEN /\ EnterScope(<<Artifact(wf.kind, wf.page_num)>>, wf.kind)
            /\ wf' = [wf EXCEPT !.pc = "block", !.step = "extract"]
       ELSE /\ wf' = Found(Advanced)
            /\ last' = NoLast
            /\ UNCHANGED <<fs, tmpfs, guards>>
    /\ UNCHANGED <<entered, clock>>

InArtifactBlock(step) ==
    /\ wf.pc = "block"
    /\ wf.step = step
    /\ Depth > 0
    /\ Top.pc = "active"

\* extract_params_from_page(...) / extract_table_from_page(...) returns;
\* the first result becomes the reference for the later pages.
ArtifactExtract ==
    /\ InArtifactBlock("extract")
    /\ \E d \in Data :
          wf' = [wf EXCEPT !.step = "open", !.data = d,
                           !.calls = Append(@, Artifact(wf.kind, wf.page_num)),
                           !.ref_params = IF wf.kind = "params" /\ @ = NoneRef THEN d ELSE @,
                           !.ref_table = IF wf.kind = "table" /\ @ = NoneRef THEN d ELSE @]
    /\ last' = NoLast
    /\ UNCHANGED <<fs, tmpfs, guards, entered, clock>>

\* The extraction call raises (a model error, a parse error, Ctrl-C).
ArtifactExtractFail ==
    /\ InArtifactBlock("extract")
    /\ \E e \in BlockExceptions : GenThrow(e)
    /\ wf' = [wf EXCEPT !.calls = Append(@, Artifact(wf.kind, wf.page_num))]
    /\ UNCHANGED <<entered, clock>>

\* open(dst_file, 'w') creates the file, empty.
ArtifactOpen ==
    /\ InArtifactBlock("open")
    /\ fs' = WriteFile(fs, Artifact(wf.kind, wf.page_num), NewFile(EmptyBytes))
    /\ wf' = [wf EXCEPT !.step = "dump"]
    /\ last' = NoLast
    /\ UNCHANGED <<tmpfs, guards, entered, clock>>

\* open(dst_file, 'w') raises: no file is created.
ArtifactOpenFail ==
    /\ InArtifactBlock("open")
    /\ GenThrow("OSError")
    /\ UNCHANGED <<entered, wf, clock>>

\* json.dump(params_data, f, ...) / print(table_data, file=f), and the file is closed.
ArtifactDump ==
    /\ InArtifactBlock("dump")
    /\ fs' = WriteFile(fs, Artifact(wf.kind, wf.page_num), NewFile(wf.data))
    /\ wf' = [wf EXCEPT !.step = "end"]
    /\ last' = NoLast
    /\ UNCHANGED <<tmpfs, guards, entered, clock>>

\* The write raises part-way: the file stays, incomplete.
ArtifactDumpFail ==
    /\ InArtifactBlock("dump")
    /\ GenThrow("OSError")
    /\ UNCHANGED <<entered, wf, clock>>

\* The with block is over.
ArtifactEnd ==
    /\ InArtifactBlock("end")
    /\ GenNext
    /\ UNCHANGED <<entered, wf, clock>>

ArtifactResumeContinue ==
    /\ wf.pc = "block"
    /\ Depth = 0
    /\ last.pc # "none"
    /\ Advance
    /\ UNCHANGED <<fs, tmpfs, guards, last, entered, clock>>

\* The scope has exited: an exception ends the run, otherwise the loop goes on.
ArtifactResume ==
    /\ wf.pc = "block"
    /\ Depth = 0
    /\ last.pc # "none"
    /\ IF last.outcome = "return" THEN Advance ELSE EndRun("failed", last.outcome)
    /\ UNCHANGED <<fs, tmpfs, guards, last, entered, clock>>

InitExtract ==
    /\ fs = <<>>
    /\ clock = 0
    /\ tmpfs = <<>>
    /\ guards = <<>>
    /\ last = NoLast
    /\ entered = 0
    /\ wf = [pc |-> "idle", run |-> 0, result |-> "none", exc |-> NoException,
             page_num |-> 1, kind |-> "params", step |-> "extract", data |-> 1,
             ref_params |-> NoneRef, ref_table |-> NoneRef, calls |-> <<>>, retry |-> {}, failed_at |-> {},
             start |-> <<>>, found |-> <<>>]

NextExtract ==
    \/ ExtractStart
    \/ ArtifactCheck
    \/ CaptureStep
    \/ Yield
    \/ ArtifactExtract
    \/ ArtifactExtractFail
    \/ ArtifactOpen
    \/ ArtifactOpenFail
    \/ ArtifactDump
    \/ ArtifactDumpFail
    \/ ArtifactEnd
    \/ RestoreStep
    \/ ReraiseStep
    \/ ArtifactResume

SpecExtract == InitExtract /\ [][NextExtract]_vars

\* extract_pdf_pages(doc_dir) is called again after a failed run, any number
\* of times: the runs past MaxRuns are not counted.
ExtractRerun ==
    /\ wf.pc = "idle"
    /\ wf.run = MaxRuns
    /\ wf.result = "failed"
    /\ IF ScanRaises
       THEN wf' = [wf EXCEPT !.result = "failed", !.exc = "JSONDecodeError",
                             !.calls = <<>>, !.retry = {}, !.failed_at = {},
                             !.start = fs, !.found = <<>>]
       ELSE wf' = [wf EXCEPT !.pc = "check", !.result = "running",
                             !.exc = NoException, !.page_num = 1, !.kind = "params",
                             !.ref_params = ScanRef("params"), !.ref_table = ScanRef("table"),
                             !.calls = <<>>, !.retry = wf.failed_at, !.failed_at = {},
                             !.start = fs, !.found = <<>>]
    /\ last' = NoLast
    /\ UNCHANGED <<fs, tmpfs, guards, entered, clock>>

NextExtractLive == NextExtract \/ ExtractRerun

\* The program keeps running and is run again after a failure; an
\* extraction call, the opening of the file and the write of the result,
\* attempted again and again, succeed at some attempt.
SpecExtractLive ==
    /\ InitExtract
    /\ [][NextExtractLive]_vars
    /\ WF_vars(NextExtractLive)
    /\ SF_vars(ArtifactExtract)
    /\ SF_vars(ArtifactOpen)
    /\ SF_vars(ArtifactDump)

\* ------------------------------------------------------------------ init_for_doc

\* The extensions of the source documents tried, and what
\* mimetypes.guess_type gives for them ("None" for an unknown one).
Extensions == {".pdf", ".doc", ".docx", ".xls", ".xlsx", ".png", ".webp", ".txt", ".zip", ""}

GuessType(ext) ==
    CASE ext = ".pdf" -> "application/pdf"
      [] ext = ".doc" -> "application/msword"
      [] ext = ".docx" -> "application/vnd.openxmlformats-officedocument.wordprocessingml.document"
      [] ext = ".xls" -> "application/vnd.ms-excel"
      [] ext = ".xlsx" -> "application/vnd.openxmlformats-officedocument.spreadsheetml.sheet"
      [] ext = ".png" -> "image/png"
      [] ext = ".webp" -> "image/webp"
      [] ext = ".txt" -> "text/plain"
      [] ext = ".zip" -> "application/zip"
      [] OTHER -> "None"

\* str.startswith
StartsWith(str, prefix) == Len(str) >= Len(prefix) /\ SubSeq(str, 1, Len(prefix)) = prefix

\* get_document_metadata(doc_file): the metadata, or ValueError raised.
Unsupported == [raises |-> "ValueError"]

get_document_metadata_lenient(ext) ==
    [raises |-> NoException, filename |-> "report" \o ext, local_file |-> "document" \o ext,
     file_type |-> "image", detailed_type |-> "unknown"]

get_document_metadata(ext) ==
    LET mimetype == GuessType(ext)
        Metadata(file_type, detailed_type) ==
            [raises |-> NoException, filename |-> "report" \o ext,
             local_file |-> "document" \o ext,
             file_type |-> file_type, detailed_type |-> detailed_type]
    IN  IF mimetype # "None" /\ StartsWith(mimetype, "application/pdf")
        THEN Metadata("pdf", "pdf")
        ELSE IF mimetype \in {"application/msword",
                              "application/vnd.openxmlformats-officedocument.wordprocessingml.document"}
        THEN Metadata("word", IF mimetype = "application/msword" THEN "word2003" ELSE "word2007+")
        ELSE IF mimetype \in {"application/vnd.ms-excel",
                              "application/vnd.openxmlformats-officedocument.spreadsheetml.sheet"}
        THEN Metadata("excel", IF mimetype = "application/vnd.ms-excel" THEN "excel2003" ELSE "excel2007+")
        ELSE IF mimetype # "None" /\ StartsWith(mimetype, "image/")
        THEN Metadata("image", SubSeq(mimetype, Len("image/") + 1, Len(mimetype)))
        ELSE Unsupported

\* The paths of one call init_for_doc(doc_file, dst_doc_dir). A directory is
\* an entry of the filesystem too, with data that no file has.
SrcFile(ext) == [dir |-> "in", name |-> "report" \o ext]
DstDir == [dir |-> "dst", name |-> ""]
DstFile(metadata) == [dir |-> "dst", name |-> metadata.local_file]
DstMetadataFile == [dir |-> "dst", name |-> "document_metadata.json"]
OtherFile == [dir |-> "dst", name |-> "notes.txt"]
DirData == NumContents + 1

\* json.dump(metadata.model_dump(), f, ...): some bytes, not empty.
JsonDump(metadata) == NumContents

\* init_for_doc(doc_file, dst_doc_dir) is called: get_document_metadata, the
\* two destination paths, then the guard over them.
InitCallMetadataUnguarded ==
    /\ wf.pc = "init"
    /\ LET metadata == get_document_metadata(wf.ext)
       IN  IF metadata.raises # NoException
           THEN /\ wf' = [wf EXCEPT !.pc = "done", !.result = "failed", !.exc = metadata.raises]
                /\ UNCHANGED <<fs, tmpfs, guards, last>>
           ELSE /\ EnterScope(<<DstFile(metadata)>>, "init_for_doc")
                /\ wf' = [wf EXCEPT !.pc = "block", !.step = "makedirs", !.metadata = metadata]
    /\ UNCHANGED <<entered, clock>>

InitCall ==
    /\ wf.pc = "init"
    /\ LET metadata == get_document_metadata(wf.ext)
       IN  IF metadata.raises # NoException
           THEN /\ wf' = [wf EXCEPT !.pc = "done", !.result = "failed", !.exc = metadata.raises]
                /\ UNCHANGED <<fs, tmpfs, guards, last>>
           ELSE /\ EnterScope(<<DstFile(metadata), DstMetadataFile>>, "init_for_doc")
                /\ wf' = [wf EXCEPT !.pc = "block", !.step = "makedirs", !.metadata = metadata]
    /\ UNCHANGED <<entered, clock>>

\* os.makedirs(dst_doc_dir, exist_ok=True)
InitMakedirs ==
    /\ InArtifactBlock("makedirs")
    /\ fs' = IF Exists(fs, DstDir) THEN fs ELSE WriteFile(fs, DstDir, NewFile(DirData))
    /\ wf' = [wf EXCEPT !.step = "open"]
    /\ last' = NoLast
    /\ UNCHANGED <<tmpfs, guards, entered, clock>>

\* os.makedirs raises (no permission): nothing is created.
InitMakedirsFail ==
    /\ InArtifactBlock("makedirs")
    /\ GenThrow("OSError")
    /\ UNCHANGED <<entered, wf, clock>>

\* open(dst_metadata_file, 'w') creates or truncates the file.
InitOpen ==
    /\ InArtifactBlock("open")
    /\ fs' = WriteFile(fs, DstMetadataFile, NewFile(EmptyBytes))
    /\ wf' = [wf EXCEPT !.step = "dump"]
    /\ last' = NoLast
    /\ UNCHANGED <<tmpfs, guards, entered, clock>>

InitOpenFail ==
    /\ InArtifactBlock("open")
    /\ GenThrow("OSError")
    /\ UNCHANGED <<entered, wf, clock>>

\* json.dump(metadata.model_dump(), f, ...), and the file is closed.
InitDump ==
    /\ InArtifactBlock("dump")
    /\ fs' = WriteFile(fs, DstMetadataFile, NewFile(JsonDump(wf.metadata)))
    /\ wf' = [wf EXCEPT !.step = "copyfile"]
    /\ last' = NoLast
    /\ UNCHANGED <<tmpfs, guards, entered, clock>>

\* The dump raises part-way: the metadata file stays, incomplete.
InitDumpFail ==
    /\ InArtifactBlock("dump")
    /\ \E e \in BlockExceptions \cup {"OSError"} : GenThrow(e)
    /\ UNCHANGED <<entered, wf, clock>>

\* shutil.copyfile(doc_file, dst_file) opens the destination for writing:
\* it is created or truncated.
InitCopyfileOpen ==
    /\ InArtifactBlock("copyfile")
    /\ fs' = WriteFile(fs, DstFile(wf.metadata), NewFile(EmptyBytes))
    /\ wf' = [wf EXCEPT !.step = "copying"]
    /\ last' = NoLast
    /\ UNCHANGED <<tmpfs, guards, entered, clock>>

\* shutil.copyfile writes the content of the source (not its metadata).
InitCopyfile ==
    /\ InArtifactBlock("copying")
    /\ fs' = WriteFile(fs, DstFile(wf.metadata), NewFile(fs[SrcFile(wf.ext)].data))
    /\ wf' = [wf EXCEPT !.step = "end"]
    /\ last' = NoLast
    /\ UNCHANGED <<tmpfs, guards, entered, clock>>

\* shutil.copyfile raises, before it opened the destination or part-way;
\* the metadata file is already written.
InitCopyfileFail ==
    /\ InArtifactBlock("copyfile") \/ InArtifactBlock("copying")
    /\ GenThrow("OSError")
    /\ UNCHANGED <<entered, wf, clock>>

\* The with block is over.
InitEnd ==
    /\ InArtifactBlock("end")
    /\ GenNext
    /\ UNCHANGED <<entered, wf, clock>>

\* The scope has exited: init_for_doc returns, or raises what the guard raised.
InitResume ==
    /\ wf.pc = "block"
    /\ Depth = 0
    /\ last.pc # "none"
    /\ wf' = [wf EXCEPT !.pc = "done",
                        !.result = IF last.outcome = "return" THEN "returned" ELSE "failed",
                        !.exc = IF last.outcome = "return" THEN NoException ELSE last.outcome]
    /\ UNCHANGED <<fs, tmpfs, guards, last, entered, clock>>

\* A source document of any extension; the destination directory absent, or
\* present with any of the two destination files and of another file.
InitInit ==
    /\ clock = 0
    /\ tmpfs = <<>>
    /\ guards = <<>>
    /\ last = NoLast
    /\ entered = 0
    /\ \E ext \in Extensions, doc \in Data, dst \in BOOLEAN :
          \E had \in IF dst
                      THEN UNION {[S -> {[data |-> c, mtime |-> 0] : c \in Data}] :
                                    S \in SUBSET {[dir |-> "dst", name |-> "document" \o ext],
                                                  DstMetadataFile, OtherFile}}
                      ELSE {<<>>} :
              /\ fs = had @@ (SrcFile(ext) :> [data |-> doc, mtime |-> 0])
                          @@ (IF dst THEN DstDir :> [data |-> DirData, mtime |-> 0] ELSE <<>>)
              /\ wf = [pc |-> "init", ext |-> ext, step |-> "makedirs", result |-> "none",
                       exc |-> NoException, start |-> fs, metadata |-> Unsupported]

NextInit ==
    \/ InitCall
    \/ CaptureStep
    \/ CaptureFail
    \/ Yield
    \/ InitMakedirs
    \/ InitMakedirsFail
    \/ InitOpen
    \/ InitOpenFail
    \/ InitDump
    \/ InitDumpFail
    \/ InitCopyfileOpen
    \/ InitCopyfile
    \/ InitCopyfileFail
    \/ InitEnd
    \/ RestoreStep
    \/ ReraiseStep
    \/ InitResume

SpecInit == InitInit /\ [][NextInit]_vars

\* ------------------------------------------------------------------ command_wrap

\* class KeyboardInterrupted: exit_code = 0x7
exit_code == 7
\* click.get_current_context().exit(1)
UnexpectedExitCode == 1
NoExitCode == -1

\* The direct base class of each exception class a command can raise.
ExceptionTypes ==
    {"ClickException", "UsageError", "ClickWarningException", "ClickErrorException",
     "KeyboardInterrupted", "KeyboardInterrupt", "ValueError", "RuntimeError",
     "SystemExit", "Exit"}

BaseClass(t) ==
    CASE t = "UsageError" -> "ClickException"
      [] t = "ClickWarningException" -> "ClickException"
      [] t = "ClickErrorException" -> "ClickException"
      [] t = "KeyboardInterrupted" -> "ClickWarningException"
      [] t = "ClickException" -> "Exception"
      [] t = "ValueError" -> "Exception"
      [] t = "RuntimeError" -> "Exception"
      [] t = "Exit" -> "RuntimeError"
      [] t = "Exception" -> "BaseException"
      [] t = "KeyboardInterrupt" -> "BaseException"
      [] t = "SystemExit" -> "BaseException"
      [] OTHER -> "object"

\* isinstance(err, cls), which is what an except clause tests.
RECURSIVE IsInstance(_, _)
IsInstance(t, cls) ==
    IF t = cls THEN TRUE
    ELSE IF t \in {"BaseException", "object"} THEN FALSE
    ELSE IsInstance(BaseClass(t), cls)

ArgsChoices == {<<>>, <<"msg">>, <<"msg", "detail">>}

\* An exception object: original tells the object the function raised from
\* one made by the wrapper.
FuncError(t, a, n) ==
    [type |-> t, args |-> a, frames |-> n, exit_code |-> NoExitCode, original |-> TRUE]

\* KeyboardInterrupted(): ClickWarningException.__init__(self, msg or 'Interrupted.')
NewKeyboardInterrupted ==
    [type |-> "KeyboardInterrupted", args |-> <<"Interrupted.">>, frames |-> 1,
     exit_code |-> exit_code, original |-> FALSE]

\* Context.exit(code) raises click's Exit(code); with no active context
\* click.get_current_context() raises RuntimeError.
ContextExit(ctx, code) ==
    IF ctx = "active"
    THEN [type |-> "Exit", args |-> <<>>, frames |-> 1, exit_code |-> code, original |-> FALSE]
    ELSE [type |-> "RuntimeError", args |-> <<"There is no active click context.">>,
          frames |-> 1, exit_code |-> NoExitCode, original |-> FALSE]

\* print_exception(err, print): the lines handed to print.
print_exception(err) ==
    LET lines == [j \in 1..err.frames |-> [text |-> "frame", of |-> err.type]]
        head == IF lines # <<>>
                THEN <<[text |-> "Traceback (most recent call last):", of |-> err.type]>> \o lines
                ELSE <<>>
        tail == IF Len(err.args) = 0
                THEN [text |-> "name", of |-> err.type]
                ELSE IF Len(err.args) = 1
                THEN [text |-> "name: arg", of |-> err.type]
                ELSE [text |-> "name: args", of |-> err.type]
    IN  head \o <<tail>>

Banner == [text |-> "Unexpected error found when running pyfcstm!", of |-> "command_wrap"]

\* return func(*args, **kwargs)
WrapReturn ==
    /\ wf.pc = "call"
    /\ wf.func = "return"
    /\ wf' = [wf EXCEPT !.pc = "done", !.outcome = "return"]
    /\ UNCHANGED <<fs, tmpfs, guards, last, entered, clock>>

\* func raises: the except clauses are tried in order.
WrapRaise ==
    /\ wf.pc = "call"
    /\ wf.func = "raise"
    /\ wf' = [wf EXCEPT !.pc = "except"]
    /\ UNCHANGED <<fs, tmpfs, guards, last, entered, clock>>

\* except ClickException: raise
ExceptClickException ==
    /\ wf.pc = "except"
    /\ IsInstance(wf.err.type, "ClickException")
    /\ wf' = [wf EXCEPT !.pc = "done", !.outcome = "raise", !.raised = wf.err]
    /\ UNCHANGED <<fs, tmpfs, guards, last, entered, clock>>

\* except KeyboardInterrupt: raise KeyboardInterrupted
ExceptKeyboardInterrupt ==
    /\ wf.pc = "except"
    /\ ~IsInstance(wf.err.type, "ClickException")
    /\ IsInstance(wf.err.type, "KeyboardInterrupt")
    /\ wf' = [wf EXCEPT !.pc = "done", !.outcome = "raise", !.raised = NewKeyboardInterrupted]
    /\ UNCHANGED <<fs, tmpfs, guards, last, entered, clock>>

\* except BaseException as err: the banner on stderr
ExceptExceptionOnly(t) == IsInstance(t, "Exception")
ExceptBaseException(t) == IsInstance(t, "BaseException")

ExceptUnexpected ==
    /\ wf.pc = "except"
    /\ ~IsInstance(wf.err.type, "ClickException")
    /\ ~IsInstance(wf.err.type, "KeyboardInterrupt")
    /\ IF ExceptBaseException(wf.err.type)
       THEN wf' = [wf EXCEPT !.pc = "report", !.stderr = Append(@, Banner)]
       ELSE wf' = [wf EXCEPT !.pc = "done", !.outcome = "raise", !.raised = wf.err]
    /\ UNCHANGED <<fs, tmpfs, guards, last, entered, clock>>

\* print_exception(err, partial(click.secho, fg='red', file=sys.stderr))
WrapReport ==
    /\ wf.pc = "report"
    /\ wf' = [wf EXCEPT !.pc = "exit", !.stderr = @ \o print_exception(wf.err)]
    /\ UNCHANGED <<fs, tmpfs, guards, last, entered, clock>>

\* click.get_current_context().exit(1)
WrapExit ==
    /\ wf.pc = "exit"
    /\ wf' = [wf EXCEPT !.pc = "done", !.outcome = "raise",
                        !.raised = ContextExit(wf.ctx, UnexpectedExitCode)]
    /\ UNCHANGED <<fs, tmpfs, guards, last, entered, clock>>

NoError == [type |-> "None"]

InitWrap ==
    /\ fs = <<>>
    /\ clock = 0
    /\ tmpfs = <<>>
    /\ guards = <<>>
    /\ last = NoLast
    /\ entered = 0
    /\ \E f \in {"return", "raise"}, ctx \in {"active", "none"} :
          \E err \in IF f = "return" THEN {NoError}
                      ELSE {FuncError(t, a, n) : t \in ExceptionTypes, a \in ArgsChoices, n \in 1..MaxFrames} :
              wf = [pc |-> "call", func |-> f, ctx |-> ctx, err |-> err,
                    stderr |-> <<>>, outcome |-> "pending", raised |-> NoError]

NextWrap ==
    \/ WrapReturn
    \/ WrapRaise
    \/ ExceptClickException
    \/ ExceptKeyboardInterrupt
    \/ ExceptUnexpected
    \/ WrapReport
    \/ WrapExit

SpecWrap == InitWrap /\ [][NextWrap]_vars

\* ------------------------------------------------------------------ specification

Init ==
    /\ fs \in UNION {[S -> {[data |-> c, mtime |-> 0] : c \in Contents}] : S \in SUBSET UserPaths}
    /\ clock = 0
    /\ tmpfs = <<>>
    /\ guards = <<>>
    /\ last = NoLast
    /\ entered = 0
    /\ wf = [pc |-> "off"]

Next ==
    \/ CallerEnter
    \/ CaptureStep
    \/ CaptureFail
    \/ Yield
    \/ BlockWrite
    \/ BlockDelete
    \/ BlockReturn
    \/ BlockRaise
    \/ RestoreStep
    \/ ReraiseStep

Spec == Init /\ [][Next]_vars

\* Time passes between any two steps of the caller and of the guard.
Tick ==
    /\ clock < MaxTime
    /\ clock' = clock + 1
    /\ UNCHANGED <<fs, tmpfs, guards, last, entered, wf>>

NextTime == Next \/ Tick

SpecTime == Init /\ [][NextTime]_vars

\* A restore step may fail (a read-only target, a full disk).
NextFault == Next \/ RestoreFail

SpecFault == Init /\ [][NextFault]_vars

\* Something outside the guard (a cleaner of temporary files) removes a
\* backup copy from the temporary directory of a running invocation.
BackupLost ==
    /\ \E d \in 1..Depth :
          \E backup_file \in DOMAIN tmpfs[guards[d].temp_dir] :
              tmpfs' = [tmpfs EXCEPT ![guards[d].temp_dir] = Unlink(@, backup_file)]
    /\ last' = NoLast
    /\ UNCHANGED <<fs, guards, entered, wf, clock>>

NextLost == Next \/ BackupLost

SpecLost == Init /\ [][NextLost]_vars

\* The caller may also open a scope inside the block of another one.
NextNested == Next \/ CallerNest

SpecNested == Init /\ [][NextNested]_vars

\* ------------------------------------------------------------------ properties

\* Path p is the same in filesystems f and g: in both or in neither, and
\* with the same content.
Same(f, g, p) == (Exists(f, p) <=> Exists(g, p)) /\ (Exists(f, p) => f[p] = g[p])

Exited == last.pc # "none"
BlockRaised == Exited /\ last.exc # NoException
LiveFrames == {guards[d] : d \in 1..Depth}

\* C1: when the block raised, every protected path that existed at scope
\* entry exists after the scope has exited, with its content at entry.
Thm_C1 ==
    BlockRaised =>
        \A p \in Protected(last) :
            Exists(last.entry, p) => Exists(fs, p) /\ fs[p] = last.entry[p]

\* Two files that existed at entry, one deleted and one rewritten by the
\* block, are both back after the rollback.
Wit_C1 ==
    /\ last.pc = "rolledback"
    /\ \E p, q \in Protected(last) :
          /\ p # q
          /\ Exists(last.entry, p) /\ Exists(last.entry, q)
          /\ ~Exists(last.left, p)
          /\ Exists(last.left, q) /\ last.left[q] # last.entry[q]
          /\ Exists(fs, p) /\ fs[p] = last.entry[p]
          /\ Exists(fs, q) /\ fs[q] = last.entry[q]

\* C2: when the block raised, every protected path that was absent at scope
\* entry is absent after the scope has exited, created by the block or not,
\* and the caller sees the block's exception, not a secondary one.
Thm_C2 ==
    BlockRaised =>
        /\ \A p \in Protected(last) : ~Exists(last.entry, p) => ~Exists(fs, p)
        /\ (\E p \in Protected(last) : ~Exists(last.entry, p)) => last.outcome = last.exc

\* Two absent paths, only one of them created by the block.
Wit_C2 ==
    /\ last.pc = "rolledback"
    /\ \E p, q \in Protected(last) :
          /\ ~Exists(last.entry, p) /\ ~Exists(last.entry, q)
          /\ Exists(last.left, p)
          /\ ~Exists(last.left, q)
          /\ ~Exists(fs, p) /\ ~Exists(fs, q)

\* C3: when the block did not raise, the filesystem after the scope has
\* exited is the filesystem the block left, for every path.
Thm_C3 ==
    last.pc = "committed" => fs = last.left /\ last.outcome = "return"

\* A modified file keeps the modification and a created file stays.
Wit_C3 ==
    /\ last.pc = "committed"
    /\ \E p, q \in Protected(last) :
          /\ Exists(last.entry, p) /\ Exists(fs, p) /\ fs[p] # last.entry[p]
          /\ ~Exists(last.entry, q) /\ Exists(fs, q)

Thm_C5 ==
    Exited =>
        IF last.exc = NoException
        THEN \A p \in Protected(last) : Same(fs, last.left, p)
        ELSE \A p \in Protected(last) : Same(fs, last.entry, p)

\* The mixed set: an existing file modified, an absent path created, then a raise.
Wit_C5 ==
    /\ last.pc = "rolledback"
    /\ last.files = <<FileA, FileB>>
    /\ Exists(last.entry, FileA) /\ ~Exists(last.entry, FileB)
    /\ Exists(last.left, FileA) /\ last.left[FileA] # last.entry[FileA]
    /\ Exists(last.left, FileB)
    /\ Exists(fs, FileA) /\ fs[FileA] = last.entry[FileA]
    /\ ~Exists(fs, FileB)

\* C6: the temporary directories that exist are those of the scopes not yet
\* exited; a scope that has exited, on any path, has left none behind, and
\* while the restore loop runs the directory and its backups are still there.
BackupsPresent(fr) ==
    /\ fr.temp_dir \in DOMAIN tmpfs
    /\ \A j \in 1..Len(fr.backup_info) :
          fr.backup_info[j].status = "exists" =>
              Exists(tmpfs[fr.temp_dir], fr.backup_info[j].backup_file)

Thm_C6 ==
    /\ DOMAIN tmpfs = {fr.temp_dir : fr \in LiveFrames}
    /\ Exited => last.temp_dir \notin DOMAIN tmpfs
    /\ last.pc = "rolledback" => last.k = Len(last.backup_info) + 1
    /\ \A fr \in LiveFrames : fr.pc = "restore" => BackupsPresent(fr)

\* A failed scope that held two backups has exited and its directory is gone.
Wit_C6 ==
    /\ last.pc = "rolledback"
    /\ Len(last.backup_info) = 2
    /\ \A j \in 1..2 : last.backup_info[j].status = "exists"
    /\ last.temp_dir \notin DOMAIN tmpfs

\* C7: a copy that fails during capture reaches the caller at once, as the
\* copy's error, and the block is not run; a block only ever runs with a
\* record for every protected path, of the status the path had at entry.
SnapshotComplete(fr) ==
    /\ fr.i = Len(fr.files)
    /\ \A p \in Protected(fr) :
          \E j \in 1..Len(fr.backup_info) :
              /\ fr.backup_info[j].file_path = p
              /\ fr.backup_info[j].status = "exists" <=> Exists(fr.entry, p)

Thm_C7 ==
    /\ last.pc = "aborted" =>
          /\ last.outcome = "OSError"
          /\ ~last.yielded
          /\ Exists(last.entry, last.files[last.i + 1])
    /\ \A fr \in LiveFrames \cup {last} :
          fr.pc # "none" /\ fr.yielded => SnapshotComplete(fr)

\* The copy of the second file fails after the first was backed up.
Wit_C7 ==
    /\ last.pc = "aborted"
    /\ Len(last.files) = 2
    /\ last.i = 1
    /\ Len(last.backup_info) = 1
    /\ last.outcome = "OSError"

\* C8: a run of extract_pdf_pages that failed at an artifact leaves no file
\* for it; the next run finds the file missing when it reaches the artifact,
\* and its first extraction call is for that artifact.
Thm_C8 ==
    /\ wf.pc = "idle" => \A r \in wf.failed_at : ~Exists(fs, r.file)
    /\ wf.pc = "check" =>
          \A r \in wf.retry :
              r.file = Artifact(wf.kind, wf.page_num) => ~Exists(fs, r.file)
    /\ wf.calls # <<>> => \A r \in wf.retry : wf.calls[1] = r.file
    /\ wf.pc = "idle" /\ wf.retry # {} => wf.calls # <<>>

\* The write of an artifact failed with its file on disk; the run after it
\* has called the extraction for that artifact.
Wit_C8 ==
    /\ wf.pc = "block"
    /\ wf.step = "open"
    /\ \E r \in wf.retry : r.written /\ wf.calls = <<r.file>> /\ ~Exists(fs, r.file)

\* C9: one invocation goes from capture (NotEntered) to the block (Active)
\* to Committed or RolledBack and never back; the snapshot is taken once,
\* before the block, the restore loop runs at most once, after the block and
\* only when it raised.
PcSteps ==
    {<<"capture", "capture">>, <<"capture", "active">>, <<"capture", "aborted">>,
     <<"active", "active">>, <<"active", "restore">>, <<"active", "committed">>,
     <<"restore", "restore">>, <<"restore", "rolledback">>}

FrameAfter(d) == IF Len(guards') >= d THEN guards'[d] ELSE last'

LifecycleStep ==
    \A d \in 1..Depth :
        /\ <<guards[d].pc, FrameAfter(d).pc>> \in PcSteps
        /\ guards[d].pc # "capture" =>
              /\ FrameAfter(d).backup_info = guards[d].backup_info
              /\ FrameAfter(d).i = guards[d].i
        /\ guards[d].pc = "restore" =>
              FrameAfter(d).k = guards[d].k \/ FrameAfter(d).pc = "restore"

LifecycleInv ==
    \A fr \in LiveFrames \cup {last} :
        /\ fr.pc \in {"none", "capture", "active", "restore", "committed", "rolledback", "aborted"}
        /\ fr.pc \in {"capture", "aborted"} =>
              ~fr.yielded /\ fr.restores = 0 /\ fr.exc = NoException
        /\ fr.pc \in {"active", "committed"} =>
              fr.yielded /\ fr.i = Len(fr.files) /\ fr.restores = 0 /\ fr.exc = NoException
        /\ fr.pc \in {"restore", "rolledback"} =>
              fr.yielded /\ fr.i = Len(fr.files) /\ fr.restores = 1 /\ fr.exc # NoException

Thm_C9 == []LifecycleInv /\ [][LifecycleStep]_vars

\* An invocation that captured two paths, ran its block and rolled back.
Wit_C9 ==
    /\ last.pc = "rolledback"
    /\ last.i = 2
    /\ last.restores = 1
    /\ last.k = 3

\* C10: an inner scope over paths disjoint from the outer scope's rolls back
\* to its own entry state and leaves the outer scope's backups as they were
\* taken; when the outer block raises later, the outer paths are back at
\* their outer-entry state and the inner paths keep their restored state.
SnapshotIntact(fr) ==
    /\ BackupsPresent(fr)
    /\ \A j \in 1..Len(fr.backup_info) :
          LET item == fr.backup_info[j]
          IN IF item.status = "exists"
             THEN /\ Exists(fr.entry, item.file_path)
                  /\ tmpfs[fr.temp_dir][item.backup_file] = fr.entry[item.file_path]
             ELSE ~Exists(fr.entry, item.file_path)

Thm_C10 ==
    /\ last.pc = "rolledback" /\ last.depth = 2 /\ Depth = 1
         /\ Protected(last) \cap Protected(guards[1]) = {} =>
            /\ \A p \in Protected(last) : Same(fs, last.entry, p)
            /\ SnapshotComplete(guards[1])
            /\ SnapshotIntact(guards[1])
    /\ last.pc = "rolledback" /\ last.depth = 1 /\ last.inner.rolled_back
         /\ Protected(last) \cap Protected(last.inner) = {} =>
            /\ \A p \in Protected(last) : Same(fs, last.entry, p)
            /\ \A p \in Protected(last.inner) : Same(fs, last.inner.entry, p)

\* The outer scope over one file and the inner over the other, both failed.
Wit_C10 ==
    /\ last.pc = "rolledback"
    /\ last.depth = 1
    /\ last.files = <<FileA>>
    /\ last.inner.rolled_back
    /\ last.inner.files = <<FileB>>
    /\ Exists(last.entry, FileA) /\ Exists(last.inner.entry, FileB)
    /\ Exists(last.left, FileA) /\ last.left[FileA] # last.entry[FileA]
    /\ fs[FileA] = last.entry[FileA]
    /\ fs[FileB] = last.inner.entry[FileB]

\* C11: when a scope whose block mutated a path and raised is followed at
\* once by a second scope over that path whose block raises too, the path
\* has, after the second scope, the content it had when the first scope was
\* entered, and that is also what the second scope found at its entry.
Thm_C11 ==
    BlockRaised =>
        \A p \in DOMAIN last.before :
            /\ Exists(last.entry, p) /\ last.entry[p] = last.before[p]
            /\ Exists(fs, p) /\ fs[p] = last.before[p]

\* Both blocks changed FileA, the second one after the first was rolled back.
Wit_C11 ==
    /\ last.pc = "rolledback"
    /\ FileA \in DOMAIN last.before
    /\ Same(last.left, last.entry, FileA) = FALSE
    /\ fs[FileA] = last.before[FileA]

\* C12: after a rollback, every protected path that existed at scope entry
\* has the modification time it had at scope entry, whenever the backup was
\* taken, the block wrote and the restore ran.
Thm_C12 ==
    last.pc = "rolledback" =>
        \A p \in Protected(last) \cap DOMAIN last.entry :
            Exists(fs, p) /\ fs[p].mtime = last.entry[p].mtime

\* The block rewrote FileA after its capture, at a later time.
Wit_C12 ==
    /\ last.pc = "rolledback"
    /\ FileA \in Protected(last) \cap DOMAIN last.entry \cap DOMAIN last.left
    /\ last.left[FileA].mtime > last.entry[FileA].mtime
    /\ last.left[FileA].data # last.entry[FileA].data
    /\ fs[FileA] = last.entry[FileA]

\* C13: a scope over an empty list ends as its block ends (a normal exit
\* when the block returns, the block's own exception when it raises), it
\* records and backs up nothing, and no step of the guard (entering,
\* capturing, restoring, leaving) changes the filesystem: after the exit the
\* filesystem is as the block left it.
EmptyGuardStep ==
    /\ Depth > 0 /\ Top.files = <<>> /\ Top.pc \in {"capture", "restore"} => fs' = fs
    /\ Depth > 0 /\ Top.files = <<>> /\ Len(guards') < Depth => fs' = fs
    /\ Len(guards') > Depth /\ guards'[Len(guards')].files = <<>> => fs' = fs

EmptyGuardInv ==
    /\ \A fr \in LiveFrames :
            fr.files = <<>> => fr.backup_info = <<>> /\ tmpfs[fr.temp_dir] = <<>>
    /\ Exited /\ last.files = <<>> =>
            /\ last.yielded
            /\ last.backup_info = <<>>
            /\ fs = last.left
            /\ last.outcome = IF last.exc = NoException THEN "return" ELSE last.exc
            /\ last.pc = IF last.exc = NoException THEN "committed" ELSE "rolledback"

Thm_C13 == []EmptyGuardInv /\ [][EmptyGuardStep]_vars

\* A scope over no path whose block created FileA and raised.
Wit_C13 ==
    /\ last.pc = "rolledback"
    /\ last.files = <<>>
    /\ last.exc = "ValueError" /\ last.outcome = "ValueError"
    /\ ~Exists(last.entry, FileA)
    /\ Exists(fs, FileA)

\* C14: when the wrapped function raises, the wrapper ends in one of three
\* ways. A ClickException (of any subclass) leaves as the very object the
\* function raised, with nothing on stderr. A KeyboardInterrupt leaves as a
\* new KeyboardInterrupted with message 'Interrupted.' and exit code 7. Any
\* other exception is reported on stderr (banner, traceback, its type), it
\* never leaves the wrapper, and in a Click context the wrapper ends with
\* the context's exit of code 1.
ClickFamily ==
    {"ClickException", "UsageError", "ClickWarningException", "ClickErrorException",
     "KeyboardInterrupted"}

Thm_C14 ==
    wf.pc = "done" /\ wf.func = "raise" =>
        /\ wf.outcome = "raise"
        /\ IF wf.err.type \in ClickFamily
           THEN wf.raised = wf.err /\ wf.raised.original /\ wf.stderr = <<>>
           ELSE IF wf.err.type = "KeyboardInterrupt"
           THEN /\ wf.raised.type = "KeyboardInterrupted"
                /\ wf.raised.args = <<"Interrupted.">>
                /\ wf.raised.exit_code = 7
                /\ ~wf.raised.original
                /\ wf.stderr = <<>>
           ELSE /\ ~wf.raised.original
                /\ Len(wf.stderr) >= 2
                /\ wf.stderr[1].text = "Unexpected error found when running pyfcstm!"
                /\ wf.stderr[Len(wf.stderr)].of = wf.err.type
                /\ wf.ctx = "active" =>
                        wf.raised.type = "Exit" /\ wf.raised.exit_code = 1

\* A SystemExit raised by the command ended as an exit of code 1.
Wit_C14 ==
    /\ wf.pc = "done"
    /\ wf.func = "raise"
    /\ wf.err.type = "SystemExit"
    /\ wf.ctx = "active"
    /\ wf.raised.type = "Exit"
    /\ wf.raised.exit_code = 1
    /\ Len(wf.stderr) = 5

Attempted(fr) == {j \in 1..Len(fr.backup_info) : j <= fr.k}

Cex_C16 ==
    Exited /\ last.restore_error # NoException =>
        Attempted(last) = 1..Len(last.backup_info)

\* C17: when backup copies have gone missing by the time the restore loop
\* reaches their records, the invocation still ends by re-raising the
\* block's exception; the paths whose backup was missing stay as the block
\* left them and every other protected path is back at its entry state.
Thm_C17 ==
    BlockRaised =>
        /\ last.pc = "rolledback"
        /\ last.restore_error = NoException
        /\ last.outcome = last.exc
        /\ last.skipped \subseteq Protected(last) \cap DOMAIN last.entry
        /\ \A p \in last.skipped : Same(fs, last.left, p)
        /\ \A p \in Protected(last) \ last.skipped : Same(fs, last.entry, p)

\* The backup of FileA was lost and FileB was restored from its own.
Wit_C17 ==
    /\ last.pc = "rolledback"
    /\ last.outcome = "ValueError"
    /\ Protected(last) = {FileA, FileB}
    /\ last.skipped = {FileA}
    /\ Exists(last.entry, FileB) /\ Exists(last.left, FileB) /\ Exists(last.left, FileA)
    /\ last.left[FileA] # last.entry[FileA]
    /\ last.left[FileB] # last.entry[FileB]
    /\ fs[FileA] = last.left[FileA]
    /\ fs[FileB] = last.entry[FileB]

\* C18: two records of one invocation for files that existed at entry never
\* name the same backup file, even when the two paths have the same file
\* name; from the end of capture each backup holds its own path's entry
\* content, and after a rollback two protected paths of the same name in
\* different directories each have their own entry content.
Thm_C18 ==
    /\ \A fr \in LiveFrames :
          fr.pc \in {"active", "restore"} =>
             \A j1, j2 \in 1..Len(fr.backup_info) :
                LET r1 == fr.backup_info[j1]
                    r2 == fr.backup_info[j2]
                IN  r1.status = "exists" /\ r2.status = "exists" =>
                       /\ j1 # j2 => r1.backup_file # r2.backup_file
                       /\ Exists(tmpfs[fr.temp_dir], r1.backup_file)
                       /\ tmpfs[fr.temp_dir][r1.backup_file] = fr.entry[r1.file_path]
    /\ last.pc = "rolledback" =>
          \A p, q \in Protected(last) \cap DOMAIN last.entry :
             p # q /\ p.name = q.name =>
                /\ Exists(fs, p) /\ fs[p] = last.entry[p]
                /\ Exists(fs, q) /\ fs[q] = last.entry[q]

\* d1/a.txt and d2/a.txt with different content, both rewritten by the
\* block, each back at its own content.
Wit_C18 ==
    /\ last.pc = "rolledback"
    /\ last.files = <<FileA, FileB>>
    /\ FileA.name = FileB.name
    /\ Exists(last.entry, FileA) /\ Exists(last.entry, FileB)
    /\ last.entry[FileA].data # last.entry[FileB].data
    /\ Exists(last.left, FileA) /\ last.left[FileA] # last.entry[FileA]
    /\ Exists(last.left, FileB) /\ last.left[FileB] # last.entry[FileB]
    /\ fs[FileA] = last.entry[FileA]
    /\ fs[FileB] = last.entry[FileB]

\* C19: from the end of capture until the invocation has exited,
\* backup_info holds one record for each distinct path of the input list
\* and no other record, whatever the list repeats, with the status the path
\* had at entry; after a rollback every such path is as it was at entry.
OneRecordPerPath(fr) ==
    /\ Len(fr.backup_info) = Cardinality(Protected(fr))
    /\ {fr.backup_info[j].file_path : j \in 1..Len(fr.backup_info)} = Protected(fr)
    /\ \A j \in 1..Len(fr.backup_info) :
          fr.backup_info[j].status =
             IF Exists(fr.entry, fr.backup_info[j].file_path) THEN "exists" ELSE "not_exists"

Thm_C19 ==
    /\ \A fr \in LiveFrames : fr.pc \in {"active", "restore"} => OneRecordPerPath(fr)
    /\ last.pc \in {"committed", "rolledback"} => OneRecordPerPath(last)
    /\ last.pc = "rolledback" => \A p \in Protected(last) : Same(fs, last.entry, p)

\* The list names FileA twice; the block rewrote it and raised.
Wit_C19 ==
    /\ last.pc = "rolledback"
    /\ last.files = <<FileA, FileA>>
    /\ Len(last.backup_info) = 1
    /\ Exists(last.entry, FileA)
    /\ Exists(last.left, FileA) /\ last.left[FileA] # last.entry[FileA]
    /\ fs[FileA] = last.entry[FileA]

\* C20: once the capture loop of an invocation is over, no step changes its
\* backup_info or any file of its temporary directory while it runs, and
\* throughout the block and the restore loop each backup holds the content
\* and metadata its path had at scope entry and each "not_exists" record is
\* for a path that was absent at entry, whatever the block did.
SnapshotStep ==
    \A d \in 1..Depth :
        guards[d].pc \in {"active", "restore"} /\ Len(guards') >= d =>
            /\ guards'[d].backup_info = guards[d].backup_info
            /\ guards'[d].temp_dir = guards[d].temp_dir
            /\ tmpfs'[guards[d].temp_dir] = tmpfs[guards[d].temp_dir]

SnapshotInv ==
    \A fr \in LiveFrames : fr.pc \in {"active", "restore"} => SnapshotIntact(fr)

Thm_C20 == []SnapshotInv /\ [][SnapshotStep]_vars

\* The restore loop is about to start after a block that rewrote FileA and
\* deleted FileB: both backups still hold the entry content.
Wit_C20 ==
    /\ Depth = 1
    /\ Top.pc = "restore" /\ Top.k = 1
    /\ Top.files = <<FileA, FileB>>
    /\ Exists(Top.entry, FileA) /\ Exists(Top.entry, FileB)
    /\ Exists(fs, FileA) /\ fs[FileA] # Top.entry[FileA]
    /\ ~Exists(fs, FileB)
    /\ tmpfs[Top.temp_dir][BackupName(0, FileA)] = Top.entry[FileA]
    /\ tmpfs[Top.temp_dir][BackupName(1, FileB)] = Top.entry[FileB]

\* C21: the records of backup_info are in the order in which their paths
\* first occur in `files`; each step of the restore loop handles the record
\* at k, changes no other path and moves k on by one; the invocation exits
\* with the block's exception only from k past the last record, and that
\* step changes no file.
FirstIndex(fl, p) == CHOOSE j \in 1..Len(fl) : fl[j] = p /\ \A h \in 1..(j - 1) : fl[h] # p

RecordedOrder(fr) ==
    \A j1, j2 \in 1..Len(fr.backup_info) :
        j1 < j2 => FirstIndex(fr.files, fr.backup_info[j1].file_path)
                      < FirstIndex(fr.files, fr.backup_info[j2].file_path)

RestoreOrderInv ==
    \A fr \in LiveFrames \cup {last} :
        fr.pc \in {"active", "restore", "rolledback"} => RecordedOrder(fr)

RestoreOrderStep ==
    \A d \in 1..Depth :
        guards[d].pc = "restore" =>
            LET fr == guards[d]
                after == FrameAfter(d)
            IN  \/ /\ after.pc = "restore"
                   /\ fr.k <= Len(fr.backup_info)
                   /\ after.k = fr.k + 1
                   /\ \A p \in UserPaths \ {fr.backup_info[fr.k].file_path} : Same(fs', fs, p)
                   /\ Same(fs', fr.entry, fr.backup_info[fr.k].file_path)
                \/ /\ after.pc = "rolledback"
                   /\ fr.k = Len(fr.backup_info) + 1
                   /\ after.outcome = fr.exc
                   /\ fs' = fs

Thm_C21 == []RestoreOrderInv /\ [][RestoreOrderStep]_vars

\* files = [FileB, FileA]: FileB is restored and FileA is not yet.
Wit_C21 ==
    /\ Depth = 1
    /\ Top.pc = "restore" /\ Top.k = 2
    /\ Top.files = <<FileB, FileA>>
    /\ Exists(Top.entry, FileA) /\ Exists(Top.entry, FileB)
    /\ Exists(Top.left, FileB) /\ Top.left[FileB] # Top.entry[FileB]
    /\ fs[FileB] = Top.entry[FileB]
    /\ Exists(fs, FileA) /\ fs[FileA] # Top.entry[FileA]

\* C22: an artifact that is on disk when the main loop of extract_pdf_pages
\* reaches it gets no extraction call in that run and has, at every later
\* moment of the run and after it, the content it had then.
Thm_C22 ==
    \A f \in DOMAIN wf.found :
        /\ Exists(fs, f) /\ fs[f] = wf.found[f]
        /\ \A j \in 1..Len(wf.calls) : wf.calls[j] # f

\* A later run passed over the params of page 1, written by an earlier run,
\* and went on to extract another artifact.
Wit_C22 ==
    /\ wf.run >= 2
    /\ ParamsFile(1) \in DOMAIN wf.found
    /\ wf.found[ParamsFile(1)].data # EmptyBytes
    /\ wf.calls # <<>>

\* C23: whatever a run of extract_pdf_pages does, every file that was on
\* disk when the run began is still there with the same content; the loop
\* stands at an artifact only when all artifacts before it (earlier pages,
\* and the params of the same page) are on disk and complete; and a run
\* that failed at an artifact has left that artifact absent, the artifacts
\* after it untouched and uncalled, and made its last call for it.
ArtifactIndex(kind, n) == (n - 1) + (n - 1) + (IF kind = "params" THEN 1 ELSE 2)

Kinds == {"params", "table"}

EarlierComplete ==
    \A kind \in Kinds, n \in 1..NumPages :
        ArtifactIndex(kind, n) < ArtifactIndex(wf.kind, wf.page_num) =>
            Exists(fs, Artifact(kind, n)) /\ fs[Artifact(kind, n)].data # EmptyBytes

Thm_C23 ==
    /\ \A f \in DOMAIN wf.start : Exists(fs, f) /\ fs[f] = wf.start[f]
    /\ wf.pc \in {"check", "block"} => EarlierComplete
    /\ wf.pc = "idle" /\ wf.result = "failed" /\ wf.failed_at # {} =>
          /\ EarlierComplete
          /\ ~Exists(fs, Artifact(wf.kind, wf.page_num))
          /\ wf.calls # <<>> /\ wf.calls[Len(wf.calls)] = Artifact(wf.kind, wf.page_num)
          /\ \A kind \in Kinds, n \in 1..NumPages :
                ArtifactIndex(kind, n) > ArtifactIndex(wf.kind, wf.page_num) =>
                    /\ Same(fs, wf.start, Artifact(kind, n))
                    /\ \A j \in 1..Len(wf.calls) : wf.calls[j] # Artifact(kind, n)

\* The run wrote the params of page 1 and failed at the table of page 1
\* after the table file had been created.
Wit_C23 ==
    /\ wf.pc = "idle" /\ wf.result = "failed"
    /\ wf.kind = "table" /\ wf.page_num = 1
    /\ \E r \in wf.failed_at : r.written
    /\ ~Exists(wf.start, ParamsFile(1))
    /\ Exists(fs, ParamsFile(1))
    /\ wf.calls = <<ParamsFile(1), TableFile(1)>>

\* C24: when a run of extract_pdf_pages has returned, the params file and
\* the table file of every page are on disk; within a run the loop moves
\* from an artifact only to the next one in page order, params before table,
\* so the extraction calls of a run are in that order.
PathIndex(f) ==
    CHOOSE x \in 1..(NumPages + NumPages) :
        \E kind \in Kinds, n \in 1..NumPages :
            Artifact(kind, n) = f /\ ArtifactIndex(kind, n) = x

PageOrderInv ==
    /\ wf.pc = "idle" /\ wf.result = "returned" =>
          \A n \in 1..NumPages : Exists(fs, ParamsFile(n)) /\ Exists(fs, TableFile(n))
    /\ \A j1, j2 \in 1..Len(wf.calls) :
          j1 < j2 => PathIndex(wf.calls[j1]) < PathIndex(wf.calls[j2])

PageOrderStep ==
    /\ wf.pc \in {"check", "block"} /\ wf'.pc \in {"check", "block"} =>
          \/ ArtifactIndex(wf'.kind, wf'.page_num) = ArtifactIndex(wf.kind, wf.page_num)
          \/ ArtifactIndex(wf'.kind, wf'.page_num) = ArtifactIndex(wf.kind, wf.page_num) + 1
    /\ wf.pc = "idle" /\ wf'.pc # "idle" => wf'.kind = "params" /\ wf'.page_num = 1
    /\ wf.pc # "idle" /\ wf'.pc = "idle" /\ wf'.result = "returned" =>
          wf.kind = "table" /\ wf.page_num = NumPages

Thm_C24 == []PageOrderInv /\ [][PageOrderStep]_vars

\* One run extracted every artifact of every page and returned.
Wit_C24 ==
    /\ wf.pc = "idle" /\ wf.result = "returned"
    /\ Len(wf.calls) = NumPages + NumPages
    /\ wf.calls[1] = ParamsFile(1) /\ wf.calls[2] = TableFile(1)
    /\ \A a \in Artifacts : Exists(fs, a)

\* C25: when extract_pdf_pages is run again after every failed run and
\* each extraction and each write succeeds at some attempt, the runs reach a
\* state where the params file and the table file of every page are on disk
\* and complete, with no step other than those of the program.
AllArtifactsComplete ==
    \A a \in Artifacts : Exists(fs, a) /\ fs[a].data # EmptyBytes

Thm_C25 == <>AllArtifactsComplete

\* Every artifact is there at the end of a run that followed a failed run
\* whose artifact had been written part-way.
Wit_C25 ==
    /\ AllArtifactsComplete
    /\ wf.pc = "idle" /\ wf.result = "returned"
    /\ wf.run = MaxRuns
    /\ \E r \in wf.retry : r.written

\* C26: when init_for_doc has failed, whichever step raised, the destination
\* document file and document_metadata.json are each as they were before
\* the call (absent, or with the content and metadata they had); when it
\* has returned, both are on disk, the metadata file with the dumped
\* metadata and the document file with the content of the source.
Thm_C26 ==
    wf.pc = "done" /\ get_document_metadata(wf.ext).raises = NoException =>
        LET dst_file == DstFile(get_document_metadata(wf.ext))
        IN  IF wf.result = "failed"
            THEN Same(fs, wf.start, dst_file) /\ Same(fs, wf.start, DstMetadataFile)
            ELSE /\ wf.result = "returned"
                 /\ Exists(fs, dst_file) /\ fs[dst_file].data = fs[SrcFile(wf.ext)].data
                 /\ Exists(fs, DstMetadataFile)
                 /\ fs[DstMetadataFile].data = JsonDump(get_document_metadata(wf.ext))

\* The copy failed part-way after the metadata file had been written over
\* an older one; the destination document did not exist before.
Wit_C26 ==
    /\ wf.pc = "done" /\ wf.result = "failed" /\ wf.step = "copying"
    /\ Exists(wf.start, DstMetadataFile)
    /\ ~Exists(wf.start, DstFile(wf.metadata))
    /\ last.left[DstMetadataFile] # wf.start[DstMetadataFile]
    /\ Exists(last.left, DstFile(wf.metadata))
    /\ fs[DstMetadataFile] = wf.start[DstMetadataFile]
    /\ ~Exists(fs, DstFile(wf.metadata))

\* C27: for a source whose guessed MIME type is not pdf, word, excel or an
\* image (an unknown type included), init_for_doc ends with ValueError, no
\* guard has been entered and the filesystem is what it was before the
\* call: no directory, document copy or metadata file was made or changed.
SupportedTypes ==
    {"application/pdf", "application/msword", "application/vnd.ms-excel",
     "application/vnd.openxmlformats-officedocument.wordprocessingml.document",
     "application/vnd.openxmlformats-officedocument.spreadsheetml.sheet",
     "image/png", "image/webp"}

Thm_C27 ==
    GuessType(wf.ext) \notin SupportedTypes =>
        /\ wf.pc \in {"init", "done"}
        /\ Depth = 0 /\ last.pc = "none" /\ tmpfs = <<>>
        /\ fs = wf.start
        /\ wf.pc = "done" => wf.result = "failed" /\ wf.exc = "ValueError"

\* report.txt was refused; the destination directory was and is absent.
Wit_C27 ==
    /\ wf.pc = "done"
    /\ wf.ext = ".txt"
    /\ wf.exc = "ValueError"
    /\ ~Exists(fs, DstDir)

\* C28: with an inner scope opened inside the block of an outer scope over
\* the same path, an inner rollback leaves the path as it was at the entry
\* of the inner scope, with the outer scope's backup as it was taken; when
\* the outer block raises after the inner scope rolled back or committed,
\* the path is as it was at the entry of the outer scope.
Thm_C28 ==
    /\ last.pc = "rolledback" /\ last.depth = 2 /\ Depth = 1 =>
          /\ \A p \in Protected(last) \cap Protected(guards[1]) : Same(fs, last.entry, p)
          /\ SnapshotIntact(guards[1])
    /\ last.pc = "rolledback" /\ last.depth = 1
          /\ (last.inner.rolled_back \/ last.inner.committed) =>
          \A p \in Protected(last) \cap Protected(last.inner) : Same(fs, last.entry, p)

\* Both scopes over FileA: the outer block rewrote it, the inner scope
\* found that content and committed another, and the outer rollback
\* brought back the first.
Wit_C28 ==
    /\ last.pc = "rolledback" /\ last.depth = 1
    /\ last.inner.committed
    /\ last.files = <<FileA>> /\ last.inner.files = <<FileA>>
    /\ Exists(last.entry, FileA) /\ Exists(last.inner.entry, FileA) /\ Exists(last.left, FileA)
    /\ last.inner.entry[FileA] # last.entry[FileA]
    /\ last.left[FileA] # last.inner.entry[FileA]
    /\ last.left[FileA] # last.entry[FileA]
    /\ fs[FileA] = last.entry[FileA]

\* C29: after a failed init_for_doc every path other than the two guarded
\* ones (the source, another file of the destination directory, and the
\* destination directory itself) is as the block left it; the destination
\* directory is there whenever os.makedirs had run before the failure.
Unguarded(fr) == (DOMAIN fs \cup DOMAIN fr.left) \ Protected(fr)

Thm_C29 ==
    wf.pc = "done" /\ last.pc = "rolledback" =>
        /\ \A p \in Unguarded(last) : Same(fs, last.left, p)
        /\ wf.step # "makedirs" => Exists(fs, DstDir)

\* The copy failed: the two files are gone again and the directory that
\* os.makedirs created is still there.
Wit_C29 ==
    /\ wf.pc = "done" /\ wf.result = "failed" /\ wf.step = "copying"
    /\ ~Exists(wf.start, DstDir)
    /\ Exists(last.left, DstMetadataFile) /\ Exists(last.left, DstFile(wf.metadata))
    /\ ~Exists(fs, DstMetadataFile) /\ ~Exists(fs, DstFile(wf.metadata))
    /\ Exists(fs, DstDir)

\* C30: no step of the capture loop, and neither the step that hands over to
\* the block nor the step by which a failed capture leaves, changes the
\* filesystem; when the capture has failed, the filesystem is what it was
\* at scope entry, the block was never started, and the temporary
\* directory is gone with the backups already made.
CaptureReadsOnly ==
    \A d \in 1..Depth : guards[d].pc = "capture" /\ d = Depth => fs' = fs

CaptureInv ==
    /\ \A fr \in LiveFrames : fr.pc = "capture" => fs = fr.entry
    /\ last.pc = "aborted" =>
          /\ fs = last.entry
          /\ ~last.yielded
          /\ last.outcome = "OSError"
          /\ last.temp_dir \notin DOMAIN tmpfs
          /\ \A d \in DOMAIN tmpfs :
                \A j \in 1..Len(last.backup_info) :
                    ~Exists(tmpfs[d], last.backup_info[j].backup_file)

Thm_C30 == []CaptureInv /\ [][CaptureReadsOnly]_vars

\* The copy of the second file failed after the first file was backed up.
Wit_C30 ==
    /\ last.pc = "aborted"
    /\ last.files = <<FileA, FileB>>
    /\ Exists(last.entry, FileA) /\ Exists(last.entry, FileB)
    /\ last.i = 1
    /\ last.backup_info[1].backup_file = BackupName(0, FileA)
    /\ fs = last.entry
    /\ tmpfs = <<>>
====
